---- MODULE Spec2Model ----
(***************************************************************************)
(* Model of minutes_to_jsonl.py: the segmenter split_into_meetings, the    *)
(* date normaliser standardize_date and the loop of run_conversion.        *)
(*                                                                         *)
(* A Python str is modelled as a sequence of one-character strings, so     *)
(* that the regular expressions, str.strip and the strptime/strftime       *)
(* conversions are computed character by character.  A character up to     *)
(* U+00FF is written as itself; a character beyond it is written by the    *)
(* name of its code point ("U+0663" is ARABIC-INDIC DIGIT THREE).          *)
(***************************************************************************)
EXTENDS Integers, Sequences, FiniteSets, TLC

VARIABLES
    libc,          \* the C library's strftime("%Y"): "glibc" or "padded"
    \* split_into_meetings called on its own
    text,          \* its argument
    pieces,        \* its return value (once called)
    segDone,       \* it has been called on text
    \* standardize_date called on its own
    date_str,      \* its argument
    origin,        \* the date and grammar date_str was written from, if any
    result,        \* what the call gave back
    again,         \* what the call on result's value gave back
    datePc,        \* "input", "normalized", "renormalized"
    \* run_conversion
    input_exists,  \* os.path.exists(INPUT_FILE)
    input_file,    \* the contents of INPUT_FILE
    full_text,     \* f.read(): the contents as text mode gives them
    meetings,      \* split_into_meetings(full_text)
    i,             \* the loop index (0-based, as enumerate counts)
    pc,            \* where run_conversion stands
    response,      \* what chain.invoke returned for meetings[i]
    meeting_dict,  \* the record being built for meetings[i]
    error,         \* the exception on its way to the except clause
    failed_at,     \* the step of the iteration that raised it
    output_file,   \* what this run appended to OUTPUT_FILE, write by write
    errors_log,    \* what this run appended to errors.log, write by write
    out_mark,      \* Len(output_file) when the current iteration began
    trace          \* what happened to each segment dealt with so far

(***************************************************************************)
(* Strings                                                                 *)
(***************************************************************************)
\* The whitespace characters that have no escape: U+000B, U+001C to U+001F,
\* U+0085 and U+00A0.
VT == ""
FS == ""
GS == ""
RS == ""
US == ""
NEL == ""
NBSP == " "

\* The whitespace characters beyond U+00FF.
FarSpaces ==
    {"U+1680", "U+2000", "U+2001", "U+2002", "U+2003", "U+2004",
     "U+2005", "U+2006", "U+2007", "U+2008", "U+2009", "U+200A",
     "U+2028", "U+2029", "U+202F", "U+205F", "U+3000"}

\* The characters str.isspace() holds of.
WhiteSpace ==
    {"\t", "\n", VT, "\f", "\r", FS, GS, RS, US, " ", NEL, NBSP}
    \cup FarSpaces

\* Python's whitespace: what \s matches in a str pattern and what str.strip()
\* and int() remove.
IsSpace(c) == c \in WhiteSpace

Min(S) == CHOOSE x \in S : \A y \in S : x <= y
Max(S) == CHOOSE x \in S : \A y \in S : x >= y

\* n copies of the character c.
Rep(c, n) == [k \in 1..n |-> c]

\* str.strip(): s without its leading and trailing whitespace.
Strip(s) ==
    LET solid == {k \in 1..Len(s) : ~IsSpace(s[k])}
    IN  IF solid = {} THEN <<>> ELSE SubSeq(s, Min(solid), Max(solid))

\* Greedy \s* from position p: the first position at or after p that holds
\* no whitespace (Len(s)+1 when there is none).
SkipSpace(s, p) ==
    Min({k \in p..Len(s) : ~IsSpace(s[k])} \cup {Len(s) + 1})

\* Greedy c* from position p: the first position at or after p that does not
\* hold the character c.
RunEnd(s, p, c) ==
    Min({k \in p..Len(s) : s[k] # c} \cup {Len(s) + 1})

\* The literal lit stands in s at position p.
HasPrefix(s, p, lit) ==
    /\ p >= 1
    /\ p + Len(lit) - 1 <= Len(s)
    /\ \A k \in 1..Len(lit) : s[p + k - 1] = lit[k]

(***************************************************************************)
(* split_into_meetings                                                     *)
(***************************************************************************)
MinLength == 50

MeetingToken == <<"M", "e", "e", "t", "i", "n", "g", ":">>

\* (?:\*{3,}|-{3,}|Meeting:) tried at position j: the position after the
\* match, 0 when none of the three alternatives matches.  The quantifiers are
\* greedy and what follows them (\s*\n?) matches the empty string, so the
\* first alternative that matches is the one the match keeps.
MarkerEnd(s, j) ==
    IF RunEnd(s, j, "*") - j >= 3 THEN RunEnd(s, j, "*")
    ELSE IF RunEnd(s, j, "-") - j >= 3 THEN RunEnd(s, j, "-")
    ELSE IF HasPrefix(s, j, MeetingToken) THEN j + Len(MeetingToken)
    ELSE 0

\* The separator pattern  \n\s*(?:\*{3,}|-{3,}|Meeting:)\s*\n?  tried at
\* position p: the position after the match, 0 when it does not match at p.
\* \s* is greedy: it runs to the first non-blank character, and giving
\* characters back cannot help, since a marker starts with a non-blank.
SeparatorEnd(s, p) ==
    IF p > Len(s) \/ s[p] # "\n" THEN 0
    ELSE LET m == MarkerEnd(s, SkipSpace(s, p + 1))
         IN  IF m = 0 THEN 0
             ELSE LET k == SkipSpace(s, m)
                  IN  IF k <= Len(s) /\ s[k] = "\n" THEN k + 1 ELSE k

\* re.split(pattern, s): the pieces of s between the successive leftmost
\* non-overlapping matches of the separator pattern, from position start.
RECURSIVE ReSplit(_, _)
ReSplit(s, start) ==
    LET hits == {p \in start..Len(s) : SeparatorEnd(s, p) # 0}
    IN  IF hits = {} THEN <<SubSeq(s, start, Len(s))>>
        ELSE LET p == Min(hits)
             IN  <<SubSeq(s, start, p - 1)>> \o ReSplit(s, SeparatorEnd(s, p))

\* A filter that also keeps a chunk of exactly the threshold length.
LongEnoughOrEqual(c) == Len(Strip(c)) >= MinLength

\* The chunk is kept by the comprehension's filter.
LongEnough(c) == Len(Strip(c)) > MinLength

split_into_meetings(t) ==
    LET chunks == ReSplit(t, 1)
        kept == SelectSeq(chunks, LongEnough)
    IN  [k \in 1..Len(kept) |-> Strip(kept[k])]

(***************************************************************************)
(* Character classes and conversions used by standardize_date              *)
(***************************************************************************)
Digits == <<"0", "1", "2", "3", "4", "5", "6", "7", "8", "9">>
Uppers == <<"A", "B", "C", "D", "E", "F", "G", "H", "I", "J", "K", "L", "M",
            "N", "O", "P", "Q", "R", "S", "T", "U", "V", "W", "X", "Y", "Z">>
Lowers == <<"a", "b", "c", "d", "e", "f", "g", "h", "i", "j", "k", "l", "m",
            "n", "o", "p", "q", "r", "s", "t", "u", "v", "w", "x", "y", "z">>

Range(f) == {f[k] : k \in DOMAIN f}
IndexOf(seq, x) == CHOOSE k \in DOMAIN seq : seq[k] = x

\* The character of s at position p; "" beyond the ends of s.
At(s, p) == IF p \in 1..Len(s) THEN s[p] ELSE ""

\* The decimal digits beyond ASCII (Unicode category Nd), one row for each
\* script, from its zero to its nine.
UnicodeDigits ==
    <<<<"U+0660", "U+0661", "U+0662", "U+0663", "U+0664",
       "U+0665", "U+0666", "U+0667", "U+0668", "U+0669">>,
      <<"U+06F0", "U+06F1", "U+06F2", "U+06F3", "U+06F4",
       "U+06F5", "U+06F6", "U+06F7", "U+06F8", "U+06F9">>,
      <<"U+07C0", "U+07C1", "U+07C2", "U+07C3", "U+07C4",
       "U+07C5", "U+07C6", "U+07C7", "U+07C8", "U+07C9">>,
      <<"U+0966", "U+0967", "U+0968", "U+0969", "U+096A",
       "U+096B", "U+096C", "U+096D", "U+096E", "U+096F">>,
      <<"U+09E6", "U+09E7", "U+09E8", "U+09E9", "U+09EA",
       "U+09EB", "U+09EC", "U+09ED", "U+09EE", "U+09EF">>,
      <<"U+0A66", "U+0A67", "U+0A68", "U+0A69", "U+0A6A",
       "U+0A6B", "U+0A6C", "U+0A6D", "U+0A6E", "U+0A6F">>,
      <<"U+0AE6", "U+0AE7", "U+0AE8", "U+0AE9", "U+0AEA",
       "U+0AEB", "U+0AEC", "U+0AED", "U+0AEE", "U+0AEF">>,
      <<"U+0B66", "U+0B67", "U+0B68", "U+0B69", "U+0B6A",
       "U+0B6B", "U+0B6C", "U+0B6D", "U+0B6E", "U+0B6F">>,
      <<"U+0BE6", "U+0BE7", "U+0BE8", "U+0BE9", "U+0BEA",
       "U+0BEB", "U+0BEC", "U+0BED", "U+0BEE", "U+0BEF">>,
      <<"U+0C66", "U+0C67", "U+0C68", "U+0C69", "U+0C6A",
       "U+0C6B", "U+0C6C", "U+0C6D", "U+0C6E", "U+0C6F">>,
      <<"U+0CE6", "U+0CE7", "U+0CE8", "U+0CE9", "U+0CEA",
       "U+0CEB", "U+0CEC", "U+0CED", "U+0CEE", "U+0CEF">>,
      <<"U+0D66", "U+0D67", "U+0D68", "U+0D69", "U+0D6A",
       "U+0D6B", "U+0D6C", "U+0D6D", "U+0D6E", "U+0D6F">>,
      <<"U+0DE6", "U+0DE7", "U+0DE8", "U+0DE9", "U+0DEA",
       "U+0DEB", "U+0DEC", "U+0DED", "U+0DEE", "U+0DEF">>,
      <<"U+0E50", "U+0E51", "U+0E52", "U+0E53", "U+0E54",
       "U+0E55", "U+0E56", "U+0E57", "U+0E58", "U+0E59">>,
      <<"U+0ED0", "U+0ED1", "U+0ED2", "U+0ED3", "U+0ED4",
       "U+0ED5", "U+0ED6", "U+0ED7", "U+0ED8", "U+0ED9">>,
      <<"U+0F20", "U+0F21", "U+0F22", "U+0F23", "U+0F24",
       "U+0F25", "U+0F26", "U+0F27", "U+0F28", "U+0F29">>,
      <<"U+1040", "U+1041", "U+1042", "U+1043", "U+1044",
       "U+1045", "U+1046", "U+1047", "U+1048", "U+1049">>,
      <<"U+1090", "U+1091", "U+1092", "U+1093", "U+1094",
       "U+1095", "U+1096", "U+1097", "U+1098", "U+1099">>,
      <<"U+17E0", "U+17E1", "U+17E2", "U+17E3", "U+17E4",
       "U+17E5", "U+17E6", "U+17E7", "U+17E8", "U+17E9">>,
      <<"U+1810", "U+1811", "U+1812", "U+1813", "U+1814",
       "U+1815", "U+1816", "U+1817", "U+1818", "U+1819">>,
      <<"U+1946", "U+1947", "U+1948", "U+1949", "U+194A",
       "U+194B", "U+194C", "U+194D", "U+194E", "U+194F">>,
      <<"U+19D0", "U+19D1", "U+19D2", "U+19D3", "U+19D4",
       "U+19D5", "U+19D6", "U+19D7", "U+19D8", "U+19D9">>,
      <<"U+1A80", "U+1A81", "U+1A82", "U+1A83", "U+1A84",
       "U+1A85", "U+1A86", "U+1A87", "U+1A88", "U+1A89">>,
      <<"U+1A90", "U+1A91", "U+1A92", "U+1A93", "U+1A94",
       "U+1A95", "U+1A96", "U+1A97", "U+1A98", "U+1A99">>,
      <<"U+1B50", "U+1B51", "U+1B52", "U+1B53", "U+1B54",
       "U+1B55", "U+1B56", "U+1B57", "U+1B58", "U+1B59">>,
      <<"U+1BB0", "U+1BB1", "U+1BB2", "U+1BB3", "U+1BB4",
       "U+1BB5", "U+1BB6", "U+1BB7", "U+1BB8", "U+1BB9">>,
      <<"U+1C40", "U+1C41", "U+1C42", "U+1C43", "U+1C44",
       "U+1C45", "U+1C46", "U+1C47", "U+1C48", "U+1C49">>,
      <<"U+1C50", "U+1C51", "U+1C52", "U+1C53", "U+1C54",
       "U+1C55", "U+1C56", "U+1C57", "U+1C58", "U+1C59">>,
      <<"U+A620", "U+A621", "U+A622", "U+A623", "U+A624",
       "U+A625", "U+A626", "U+A627", "U+A628", "U+A629">>,
      <<"U+A8D0", "U+A8D1", "U+A8D2", "U+A8D3", "U+A8D4",
       "U+A8D5", "U+A8D6", "U+A8D7", "U+A8D8", "U+A8D9">>,
      <<"U+A900", "U+A901", "U+A902", "U+A903", "U+A904",
       "U+A905", "U+A906", "U+A907", "U+A908", "U+A909">>,
      <<"U+A9D0", "U+A9D1", "U+A9D2", "U+A9D3", "U+A9D4",
       "U+A9D5", "U+A9D6", "U+A9D7", "U+A9D8", "U+A9D9">>,
      <<"U+A9F0", "U+A9F1", "U+A9F2", "U+A9F3", "U+A9F4",
       "U+A9F5", "U+A9F6", "U+A9F7", "U+A9F8", "U+A9F9">>,
      <<"U+AA50", "U+AA51", "U+AA52", "U+AA53", "U+AA54",
       "U+AA55", "U+AA56", "U+AA57", "U+AA58", "U+AA59">>,
      <<"U+ABF0", "U+ABF1", "U+ABF2", "U+ABF3", "U+ABF4",
       "U+ABF5", "U+ABF6", "U+ABF7", "U+ABF8", "U+ABF9">>,
      <<"U+FF10", "U+FF11", "U+FF12", "U+FF13", "U+FF14",
       "U+FF15", "U+FF16", "U+FF17", "U+FF18", "U+FF19">>,
      <<"U+104A0", "U+104A1", "U+104A2", "U+104A3", "U+104A4",
       "U+104A5", "U+104A6", "U+104A7", "U+104A8", "U+104A9">>,
      <<"U+10D30", "U+10D31", "U+10D32", "U+10D33", "U+10D34",
       "U+10D35", "U+10D36", "U+10D37", "U+10D38", "U+10D39">>,
      <<"U+11066", "U+11067", "U+11068", "U+11069", "U+1106A",
       "U+1106B", "U+1106C", "U+1106D", "U+1106E", "U+1106F">>,
      <<"U+110F0", "U+110F1", "U+110F2", "U+110F3", "U+110F4",
       "U+110F5", "U+110F6", "U+110F7", "U+110F8", "U+110F9">>,
      <<"U+11136", "U+11137", "U+11138", "U+11139", "U+1113A",
       "U+1113B", "U+1113C", "U+1113D", "U+1113E", "U+1113F">>,
      <<"U+111D0", "U+111D1", "U+111D2", "U+111D3", "U+111D4",
       "U+111D5", "U+111D6", "U+111D7", "U+111D8", "U+111D9">>,
      <<"U+112F0", "U+112F1", "U+112F2", "U+112F3", "U+112F4",
       "U+112F5", "U+112F6", "U+112F7", "U+112F8", "U+112F9">>,
      <<"U+11450", "U+11451", "U+11452", "U+11453", "U+11454",
       "U+11455", "U+11456", "U+11457", "U+11458", "U+11459">>,
      <<"U+114D0", "U+114D1", "U+114D2", "U+114D3", "U+114D4",
       "U+114D5", "U+114D6", "U+114D7", "U+114D8", "U+114D9">>,
      <<"U+11650", "U+11651", "U+11652", "U+11653", "U+11654",
       "U+11655", "U+11656", "U+11657", "U+11658", "U+11659">>,
      <<"U+116C0", "U+116C1", "U+116C2", "U+116C3", "U+116C4",
       "U+116C5", "U+116C6", "U+116C7", "U+116C8", "U+116C9">>,
      <<"U+11730", "U+11731", "U+11732", "U+11733", "U+11734",
       "U+11735", "U+11736", "U+11737", "U+11738", "U+11739">>,
      <<"U+118E0", "U+118E1", "U+118E2", "U+118E3", "U+118E4",
       "U+118E5", "U+118E6", "U+118E7", "U+118E8", "U+118E9">>,
      <<"U+11950", "U+11951", "U+11952", "U+11953", "U+11954",
       "U+11955", "U+11956", "U+11957", "U+11958", "U+11959">>,
      <<"U+11C50", "U+11C51", "U+11C52", "U+11C53", "U+11C54",
       "U+11C55", "U+11C56", "U+11C57", "U+11C58", "U+11C59">>,
      <<"U+11D50", "U+11D51", "U+11D52", "U+11D53", "U+11D54",
       "U+11D55", "U+11D56", "U+11D57", "U+11D58", "U+11D59">>,
      <<"U+11DA0", "U+11DA1", "U+11DA2", "U+11DA3", "U+11DA4",
       "U+11DA5", "U+11DA6", "U+11DA7", "U+11DA8", "U+11DA9">>,
      <<"U+16A60", "U+16A61", "U+16A62", "U+16A63", "U+16A64",
       "U+16A65", "U+16A66", "U+16A67", "U+16A68", "U+16A69">>,
      <<"U+16AC0", "U+16AC1", "U+16AC2", "U+16AC3", "U+16AC4",
       "U+16AC5", "U+16AC6", "U+16AC7", "U+16AC8", "U+16AC9">>,
      <<"U+16B50", "U+16B51", "U+16B52", "U+16B53", "U+16B54",
       "U+16B55", "U+16B56", "U+16B57", "U+16B58", "U+16B59">>,
      <<"U+1D7CE", "U+1D7CF", "U+1D7D0", "U+1D7D1", "U+1D7D2",
       "U+1D7D3", "U+1D7D4", "U+1D7D5", "U+1D7D6", "U+1D7D7">>,
      <<"U+1D7D8", "U+1D7D9", "U+1D7DA", "U+1D7DB", "U+1D7DC",
       "U+1D7DD", "U+1D7DE", "U+1D7DF", "U+1D7E0", "U+1D7E1">>,
      <<"U+1D7E2", "U+1D7E3", "U+1D7E4", "U+1D7E5", "U+1D7E6",
       "U+1D7E7", "U+1D7E8", "U+1D7E9", "U+1D7EA", "U+1D7EB">>,
      <<"U+1D7EC", "U+1D7ED", "U+1D7EE", "U+1D7EF", "U+1D7F0",
       "U+1D7F1", "U+1D7F2", "U+1D7F3", "U+1D7F4", "U+1D7F5">>,
      <<"U+1D7F6", "U+1D7F7", "U+1D7F8", "U+1D7F9", "U+1D7FA",
       "U+1D7FB", "U+1D7FC", "U+1D7FD", "U+1D7FE", "U+1D7FF">>,
      <<"U+1E140", "U+1E141", "U+1E142", "U+1E143", "U+1E144",
       "U+1E145", "U+1E146", "U+1E147", "U+1E148", "U+1E149">>,
      <<"U+1E2F0", "U+1E2F1", "U+1E2F2", "U+1E2F3", "U+1E2F4",
       "U+1E2F5", "U+1E2F6", "U+1E2F7", "U+1E2F8", "U+1E2F9">>,
      <<"U+1E950", "U+1E951", "U+1E952", "U+1E953", "U+1E954",
       "U+1E955", "U+1E956", "U+1E957", "U+1E958", "U+1E959">>,
      <<"U+1FBF0", "U+1FBF1", "U+1FBF2", "U+1FBF3", "U+1FBF4",
       "U+1FBF5", "U+1FBF6", "U+1FBF7", "U+1FBF8", "U+1FBF9">>>>

AsciiDigitSet == Range(Digits)
DigitSet ==
    AsciiDigitSet \cup UNION {Range(UnicodeDigits[r]) : r \in DOMAIN UnicodeDigits}
UpperSet == Range(Uppers)
AlphaSet == Range(Uppers) \cup Range(Lowers)

\* [0-9] in a pattern.
IsAsciiDigit(c) == c \in AsciiDigitSet
\* \d in a str pattern: any decimal digit.
IsDigit(c) == c \in DigitSet
\* [A-Za-z] in a pattern.
IsAlpha(c) == c \in AlphaSet

\* The value int() gives the digit.
DigitVal(c) ==
    IF c \in AsciiDigitSet THEN IndexOf(Digits, c) - 1
    ELSE LET r == CHOOSE r \in DOMAIN UnicodeDigits : c \in Range(UnicodeDigits[r])
         IN  IndexOf(UnicodeDigits[r], c) - 1

\* The letters with a case between U+0080 and U+00FF, each capital with its
\* small letter.
Latin1Uppers == <<"À", "Á", "Â", "Ã", "Ä", "Å", "Æ", "Ç", "È", "É", "Ê", "Ë",
                  "Ì", "Í", "Î", "Ï", "Ð", "Ñ", "Ò", "Ó", "Ô", "Õ", "Ö", "Ø",
                  "Ù", "Ú", "Û", "Ü", "Ý", "Þ">>
Latin1Lowers == <<"à", "á", "â", "ã", "ä", "å", "æ", "ç", "è", "é", "ê", "ë",
                  "ì", "í", "î", "ï", "ð", "ñ", "ò", "ó", "ô", "õ", "ö", "ø",
                  "ù", "ú", "û", "ü", "ý", "þ">>
Latin1UpperSet == Range(Latin1Uppers)

\* str.lower() of one character.  U+0130 (capital I with a dot) becomes two
\* characters and U+212A (the Kelvin sign) becomes k; beyond U+00FF these are
\* the only characters the model lower-cases: lower() is applied to what a
\* month-name pattern matched, and the other characters that match an ASCII
\* letter whatever the case, U+0131 and U+017F, are their own lower case.
LowerOf(c) ==
    IF c \in UpperSet THEN <<Lowers[IndexOf(Uppers, c)]>>
    ELSE IF c \in Latin1UpperSet THEN <<Latin1Lowers[IndexOf(Latin1Uppers, c)]>>
    ELSE IF c = "U+0130" THEN <<"i", "U+0307">>
    ELSE IF c = "U+212A" THEN <<"k">>
    ELSE <<c>>

\* str.lower()
RECURSIVE Lower(_)
Lower(s) == IF s = <<>> THEN <<>> ELSE LowerOf(Head(s)) \o Lower(Tail(s))

\* The character matches the small ASCII letter l under re.IGNORECASE: it is
\* l in either case, or one of the four characters beyond ASCII that match
\* an ASCII letter.
CaseMatches(c, l) ==
    \/ c = l
    \/ c \in UpperSet /\ Lowers[IndexOf(Uppers, c)] = l
    \/ l = "i" /\ c \in {"U+0130", "U+0131"}
    \/ l = "s" /\ c = "U+017F"
    \/ l = "k" /\ c = "U+212A"

\* int(): the decimal value of a run of digits, blanks around it ignored.
RECURSIVE DigitsToInt(_)
DigitsToInt(s) ==
    IF s = <<>> THEN 0
    ELSE 10 * DigitsToInt(SubSeq(s, 1, Len(s) - 1)) + DigitVal(s[Len(s)])
ToInt(s) == DigitsToInt(Strip(s))

\* str(n) for n >= 0.
RECURSIVE IntToStr(_)
IntToStr(n) ==
    IF n < 10 THEN <<Digits[n + 1]>>
    ELSE IntToStr(n \div 10) \o <<Digits[(n % 10) + 1]>>

\* s padded with zeros on the left to the width w.
ZeroPad(s, w) == IF Len(s) >= w THEN s ELSE Rep("0", w - Len(s)) \o s

(***************************************************************************)
(* The calendar: calendar.month_name, calendar.month_abbr, datetime.date   *)
(***************************************************************************)
month_name ==
    <<<<"J", "a", "n", "u", "a", "r", "y">>,
      <<"F", "e", "b", "r", "u", "a", "r", "y">>,
      <<"M", "a", "r", "c", "h">>,
      <<"A", "p", "r", "i", "l">>,
      <<"M", "a", "y">>,
      <<"J", "u", "n", "e">>,
      <<"J", "u", "l", "y">>,
      <<"A", "u", "g", "u", "s", "t">>,
      <<"S", "e", "p", "t", "e", "m", "b", "e", "r">>,
      <<"O", "c", "t", "o", "b", "e", "r">>,
      <<"N", "o", "v", "e", "m", "b", "e", "r">>,
      <<"D", "e", "c", "e", "m", "b", "e", "r">>>>

month_abbr ==
    <<<<"J", "a", "n">>, <<"F", "e", "b">>, <<"M", "a", "r">>,
      <<"A", "p", "r">>, <<"M", "a", "y">>, <<"J", "u", "n">>,
      <<"J", "u", "l">>, <<"A", "u", "g">>, <<"S", "e", "p">>,
      <<"O", "c", "t">>, <<"N", "o", "v">>, <<"D", "e", "c">>>>

\* The lower-cased tables strptime matches and looks the names up in.
f_month == [n \in DOMAIN month_name |-> Lower(month_name[n])]
a_month == [n \in DOMAIN month_abbr |-> Lower(month_abbr[n])]

IsLeap(y) == y % 4 = 0 /\ (y % 100 # 0 \/ y % 400 = 0)

DaysInMonth(y, m) ==
    IF m = 2 THEN (IF IsLeap(y) THEN 29 ELSE 28)
    ELSE IF m \in {4, 6, 9, 11} THEN 30 ELSE 31

\* datetime.date(y, m, d) accepts the triple (it raises ValueError otherwise).
ValidDate(y, m, d) ==
    /\ y >= 1 /\ y <= 9999
    /\ m >= 1 /\ m <= 12
    /\ d >= 1 /\ d <= DaysInMonth(y, m)

(***************************************************************************)
(* Regular expressions: a pattern is a sequence of items, matched left to  *)
(* right with backtracking in the order re tries the alternatives.         *)
(***************************************************************************)
Item(kind, c) == [k |-> kind, c |-> c]

\* The names of a lower-cased table that stand at position pos whatever
\* their case, as end positions, in the order of the alternation strptime
\* builds: longest name first, table order among names of one length.
NameEnds(s, pos, table) ==
    LET hit(n) ==
            /\ pos + Len(table[n]) - 1 <= Len(s)
            /\ \A k \in 1..Len(table[n]) :
                  CaseMatches(s[pos + k - 1], table[n][k])
        before(a, b) == \/ Len(table[a]) > Len(table[b])
                        \/ Len(table[a]) = Len(table[b]) /\ a < b
        hits == {n \in DOMAIN table : hit(n)}
        rank(n) == Cardinality({a \in hits : before(a, n)}) + 1
    IN  [r \in 1..Cardinality(hits) |->
            pos + Len(table[CHOOSE n \in hits : rank(n) = r])]

\* One candidate end position when cond holds, none otherwise.
Alt(cond, end) == IF cond THEN <<end>> ELSE <<>>

\* Greedy repetition, at least once: every end from the longest run (run
\* characters from pos) down to one character.
GreedyEnds(pos, run) == [j \in 1..run |-> pos + run - j + 1]

\* The end positions at which the item can stop when started at pos, in the
\* order the regular expression engine tries them.
Ends(s, pos, item) ==
    LET c0 == At(s, pos)
        c1 == At(s, pos + 1)
        nonzero(c) == IsAsciiDigit(c) /\ c # "0"
    IN  CASE item.k = "lit" -> Alt(c0 = item.c, pos + 1)
          [] item.k = "ws" -> GreedyEnds(pos, SkipSpace(s, pos) - pos)
          [] item.k = "B" -> NameEnds(s, pos, f_month)
          [] item.k = "b" -> NameEnds(s, pos, a_month)
          \* %d: 3[0-1]|[1-2]\d|0[1-9]|[1-9]| [1-9]
          [] item.k = "d" ->
                Alt(c0 = "3" /\ c1 \in {"0", "1"}, pos + 2)
                \o Alt(c0 \in {"1", "2"} /\ IsDigit(c1), pos + 2)
                \o Alt(c0 = "0" /\ nonzero(c1), pos + 2)
                \o Alt(nonzero(c0), pos + 1)
                \o Alt(c0 = " " /\ nonzero(c1), pos + 2)
          \* %m: 1[0-2]|0[1-9]|[1-9]
          [] item.k = "m" ->
                Alt(c0 = "1" /\ c1 \in {"0", "1", "2"}, pos + 2)
                \o Alt(c0 = "0" /\ nonzero(c1), pos + 2)
                \o Alt(nonzero(c0), pos + 1)
          \* %Y and \d{4}: \d\d\d\d
          [] item.k = "Y" ->
                Alt(\A j \in 0..3 : IsDigit(At(s, pos + j)), pos + 4)
          \* [A-Za-z]+
          [] item.k = "alpha" ->
                GreedyEnds(pos,
                    Min({j \in pos..Len(s) : ~IsAlpha(s[j])} \cup {Len(s) + 1})
                    - pos)
          \* \d{1,2}
          [] item.k = "d12" ->
                Alt(IsDigit(c0) /\ IsDigit(c1), pos + 2)
                \o Alt(IsDigit(c0), pos + 1)
          \* ,?
          [] item.k = "optcomma" -> Alt(c0 = ",", pos + 1) \o <<pos>>

\* re.match of the items at pos: whether they match and, when they do, the
\* end position of each item in the first match the backtracking finds.
RECURSIVE MatchItems(_, _, _)
RECURSIVE TryEnds(_, _, _, _)
MatchItems(s, pos, items) ==
    IF items = <<>> THEN [ok |-> TRUE, ends |-> <<>>]
    ELSE TryEnds(s, Ends(s, pos, Head(items)), 1, Tail(items))

\* The candidate ends of one item from number c on, each with the rest of the
\* items matched after it: the first that lets the rest match is kept.
TryEnds(s, cands, c, rest) ==
    IF c > Len(cands) THEN [ok |-> FALSE, ends |-> <<>>]
    ELSE LET after == MatchItems(s, cands[c], rest)
         IN  IF after.ok
             THEN [ok |-> TRUE, ends |-> <<cands[c]>> \o after.ends]
             ELSE TryEnds(s, cands, c + 1, rest)

\* The text item n of a match matched.
Group(s, ends, n) ==
    SubSeq(s, IF n = 1 THEN 1 ELSE ends[n - 1], ends[n] - 1)

(***************************************************************************)
(* standardize_date                                                        *)
(***************************************************************************)
\* The six formats, each with the places of its year, month and day items.
formats ==
    <<[items |-> <<Item("B", ""), Item("ws", ""), Item("d", ""),
                   Item("lit", ","), Item("ws", ""), Item("Y", "")>>,
       mon |-> 1, day |-> 3, year |-> 6],
      [items |-> <<Item("b", ""), Item("ws", ""), Item("d", ""),
                   Item("lit", ","), Item("ws", ""), Item("Y", "")>>,
       mon |-> 1, day |-> 3, year |-> 6],
      [items |-> <<Item("B", ""), Item("ws", ""), Item("d", ""),
                   Item("ws", ""), Item("Y", "")>>,
       mon |-> 1, day |-> 3, year |-> 5],
      [items |-> <<Item("b", ""), Item("ws", ""), Item("d", ""),
                   Item("ws", ""), Item("Y", "")>>,
       mon |-> 1, day |-> 3, year |-> 5],
      [items |-> <<Item("m", ""), Item("lit", "/"), Item("d", ""),
                   Item("lit", "/"), Item("Y", "")>>,
       mon |-> 1, day |-> 3, year |-> 5],
      [items |-> <<Item("Y", ""), Item("lit", "-"), Item("m", ""),
                   Item("lit", "-"), Item("d", "")>>,
       mon |-> 3, day |-> 5, year |-> 1]>>

\* What a call gives back: the exception it raised ("none" when it returned).
Raise(e) == [exc |-> e, year |-> 0, month |-> 0, day |-> 0]
DateOf(y, m, d) == [exc |-> "none", year |-> y, month |-> m, day |-> d]

\* datetime.date(y, m, d), and the same check inside strptime.
MakeDate(y, m, d) ==
    IF ValidDate(y, m, d) THEN DateOf(y, m, d) ELSE Raise("ValueError")

\* The place of the lower-cased text g in a lower-cased table, 0 when it is
\* not there (list.index raises ValueError).
PlaceIn(table, g) ==
    LET places == {n \in DOMAIN table : table[n] = Lower(g)}
    IN  IF places = {} THEN 0 ELSE Min(places)

\* The month a strptime month item stands for: int() of %m, the place of the
\* lower-cased name in the lower-cased table for %B and %b.
MonthOfItem(item, g) ==
    CASE item.k = "m" -> ToInt(g)
      [] item.k = "B" -> PlaceIn(f_month, g)
      [] item.k = "b" -> PlaceIn(a_month, g)

\* datetime.datetime.strptime(ds, fmt): the text has to match the format's
\* pattern from its start, nothing may remain after the match, the month
\* name has to be in the table once lower-cased, and the values have to make
\* a date.
Strptime(ds, fmt) ==
    LET found == MatchItems(ds, 1, fmt.items)
    IN  IF ~found.ok THEN Raise("ValueError")
        ELSE IF found.ends[Len(found.ends)] # Len(ds) + 1
             THEN Raise("ValueError")
        ELSE LET month == MonthOfItem(fmt.items[fmt.mon],
                                      Group(ds, found.ends, fmt.mon))
             IN  IF month = 0 THEN Raise("ValueError")
                 ELSE MakeDate(ToInt(Group(ds, found.ends, fmt.year)), month,
                               ToInt(Group(ds, found.ends, fmt.day)))

\* dt.strftime("%Y-%m-%d").  %m and %d are two digits everywhere; %Y is the C
\* library's: glibc writes the year without leading zeros, other libraries
\* pad it to four digits.
Strftime(dt) ==
    (IF libc = "glibc" THEN IntToStr(dt.year)
     ELSE ZeroPad(IntToStr(dt.year), 4))
    \o <<"-">> \o ZeroPad(IntToStr(dt.month), 2)
    \o <<"-">> \o ZeroPad(IntToStr(dt.day), 2)

\* ([A-Za-z]+)\s+(\d{1,2}),?\s+(\d{4})
FallbackItems ==
    <<Item("alpha", ""), Item("ws", ""), Item("d12", ""),
      Item("optcomma", ""), Item("ws", ""), Item("Y", "")>>

\* list(calendar.month_name).index(month) if month in calendar.month_name
\* else list(calendar.month_abbr).index(month)
MonthNum(month) ==
    IF month \in Range(month_name) THEN IndexOf(month_name, month)
    ELSE IF month \in Range(month_abbr) THEN IndexOf(month_abbr, month)
    ELSE 0

\* The body of the second try block: the month number, then datetime.date.
FallbackDate(ds, ends) ==
    LET month == Group(ds, ends, 1)
        day == ToInt(Group(ds, ends, 3))
        year == ToInt(Group(ds, ends, 6))
    IN  IF MonthNum(month) = 0 THEN Raise("ValueError")
        ELSE MakeDate(year, MonthNum(month), day)

\* A handler that takes TypeError only.
ExceptTypeError(e) == e = "TypeError"

\* "except Exception": the handler takes every exception but the three that
\* are no subclass of Exception.
ExceptException(e) ==
    e \notin {"none", "KeyboardInterrupt", "SystemExit", "GeneratorExit"}

Returned(v) == [exc |-> "none", value |-> v]
Raised(e) == [exc |-> e, value |-> <<>>]

\* From "match = re.match(...)" to the final return "".
Fallback(ds) ==
    LET match == MatchItems(ds, 1, FallbackItems)
    IN  IF ~match.ok THEN Returned(<<>>)
        ELSE LET dt == FallbackDate(ds, match.ends)
             IN  IF dt.exc = "none" THEN Returned(Strftime(dt))
                 ELSE IF ExceptException(dt.exc) THEN Returned(<<>>)
                 ELSE Raised(dt.exc)

\* The loop over the formats, from format number n on.
RECURSIVE TryFormats(_, _)
TryFormats(ds, n) ==
    IF n > Len(formats) THEN Fallback(ds)
    ELSE LET dt == Strptime(ds, formats[n])
         IN  IF dt.exc = "none" THEN Returned(Strftime(dt))
             ELSE IF ExceptException(dt.exc) THEN TryFormats(ds, n + 1)
             ELSE Raised(dt.exc)

standardize_date(s) == TryFormats(Strip(s), 1)

(***************************************************************************)
(* run_conversion                                                          *)
(***************************************************************************)
NoResponse == [date |-> <<>>, location |-> ""]
NoDict == [date |-> <<>>, location |-> "", original_text |-> <<>>]

\* f.read() of a file opened in text mode with the default newline: "\r\n"
\* and a "\r" on its own are both read as "\n".
UniversalNewlines(raw) ==
    LET kept == {k \in 1..Len(raw) :
                    ~(raw[k] = "\n" /\ k > 1 /\ raw[k - 1] = "\r")}
        place(n) == CHOOSE k \in kept : Cardinality({j \in kept : j <= k}) = n
    IN  [n \in 1..Cardinality(kept) |->
            IF raw[place(n)] = "\r" THEN "\n" ELSE raw[place(n)]]

\* response.model_dump() with original_text set to the chunk.
DictOf(r, meeting_chunk) ==
    [date |-> r.date, location |-> r.location,
     original_text |-> meeting_chunk]

\* if "date" in meeting_dict and meeting_dict["date"]:
\*     meeting_dict["date"] = standardize_date(meeting_dict["date"])
WithStandardDate(d) ==
    IF d.date # <<>> THEN [d EXCEPT !.date = standardize_date(d.date).value]
    ELSE d

\* The exception that statement lets out ("none": it ran to its end).
StandardDateExc(d) ==
    IF d.date # <<>> THEN standardize_date(d.date).exc ELSE "none"

\* What a write puts into OUTPUT_FILE: json.dumps(meeting_dict) + "\n", the
\* whole line, or, when the write fails on its way, a beginning of that text
\* with no line end after it.
Line(d) == [kind |-> "line", record |-> d]
LineFragment(d) == [kind |-> "fragment", record |-> d]

\* What a failed "with open(...) as f: f.write(...)" block may have left in
\* the file: nothing (open or the first write failed), a beginning of the
\* text (the device took part of it), all of it (close failed after the data
\* went out).
WriteLeftovers == {"nothing", "fragment", "all"}

LeftIn(file, left, whole, part) ==
    CASE left = "nothing" -> file
      [] left = "fragment" -> Append(file, part)
      [] left = "all" -> Append(file, whole)

\* A block numbered with the 0-based loop index.
ErrorBlockZeroBased(idx, e, meeting_chunk) ==
    [kind |-> "block", entry |-> idx, reason |-> e, chunk |-> meeting_chunk]

\* f"Entry {i+1} failed: {str(e)}\n---\n{meeting_chunk}\n\n"
ErrorBlock(idx, e, meeting_chunk) ==
    [kind |-> "block", entry |-> idx + 1, reason |-> e, chunk |-> meeting_chunk]

\* A beginning of the block, left by a write to errors.log that failed on
\* its way.
BlockFragment(b) == [b EXCEPT !.kind = "fragment"]

\* The index the loop goes on with after the except clause ("continue").
AfterExcept(idx, n) == idx + 1

(***************************************************************************)
(* Inputs                                                                  *)
(***************************************************************************)
MaxLines == 3
MaxGap == 2
MaxSegments == 2

Body == Rep("a", MinLength)

\* The lines a text is made of: content just at and just over the length
\* threshold, bare, between blanks and between whitespace other than blanks;
\* the three markers, bare, between blanks, between no-break spaces, too
\* short, and followed by other text; short lines.
LineKinds ==
    {Body,
     Body \o <<"x">>,
     <<" ">> \o Body \o <<" ">>,
     <<" ">> \o Body \o <<"x", " ">>,
     <<VT>> \o Body \o <<"x", "U+2003">>,
     <<"*", "*", "*">>,
     <<" ", "*", "*", "*", "*", " ">>,
     <<NBSP, "-", "-", "-", NEL>>,
     <<"-", "-", "-">>,
     MeetingToken,
     <<"*", "*">>,
     <<"*", "*", "*", "x">>,
     MeetingToken \o <<" ", "x">>,
     <<"x">>,
     <<>>}

\* The texts of at most n lines (one line at least; the empty line gives the
\* empty text).
RECURSIVE TextsOf(_)
TextsOf(n) ==
    IF n <= 1 THEN LineKinds
    ELSE LET shorter == TextsOf(n - 1)
         IN  shorter \cup {t \o <<"\n">> \o l : t \in shorter, l \in LineKinds}

\* Dates written in one of the six grammars.
Years == {4, 999, 1000, 1900, 2000, 2004}
Days == {1, 9, 10, 28, 29, 30, 31}
Grammars == 1..6

Render(y, m, d, g, padded) ==
    LET D == IF padded THEN ZeroPad(IntToStr(d), 2) ELSE IntToStr(d)
        M == IF padded THEN ZeroPad(IntToStr(m), 2) ELSE IntToStr(m)
        Y == ZeroPad(IntToStr(y), 4)
    IN  CASE g = 1 -> month_name[m] \o <<" ">> \o D \o <<",", " ">> \o Y
          [] g = 2 -> month_abbr[m] \o <<" ">> \o D \o <<",", " ">> \o Y
          [] g = 3 -> month_name[m] \o <<" ">> \o D \o <<" ">> \o Y
          [] g = 4 -> month_abbr[m] \o <<" ">> \o D \o <<" ">> \o Y
          [] g = 5 -> M \o <<"/">> \o D \o <<"/">> \o Y
          [] g = 6 -> Y \o <<"-">> \o M \o <<"-">> \o D

\* The canonical form of a date: YYYY-MM-DD, zero-padded.
Canonical(y, m, d) ==
    ZeroPad(IntToStr(y), 4) \o <<"-">> \o ZeroPad(IntToStr(m), 2)
    \o <<"-">> \o ZeroPad(IntToStr(d), 2)

CalendarDates ==
    {ymd \in Years \X (1..12) \X Days : ValidDate(ymd[1], ymd[2], ymd[3])}

Rendered ==
    {[str |-> Render(ymd[1], ymd[2], ymd[3], g, p),
      from |-> [kind |-> "date", y |-> ymd[1], m |-> ymd[2], d |-> ymd[3],
                g |-> g]] :
        ymd \in CalendarDates, g \in Grammars, p \in BOOLEAN}

\* Free-form strings: a word, a gap, a number, a gap, a number, a tail.  The
\* words include a month name written with U+017F for its s, the gaps
\* whitespace other than blanks, the numbers digits other than ASCII.
Words == {month_name[1], month_abbr[1], Lower(month_name[1]), month_name[2],
          <<"A", "u", "g", "u", "U+017F", "t">>,
          <<"J", "a", "n", "v", "i", "e", "r">>,
          <<"N", "o", "n", "s", "e", "n", "s", "e">>,
          <<"0", "1">>, <<"2", "0", "0", "4">>, <<>>}
Spaces == {Rep(" ", n) : n \in 0..MaxGap}
Gaps1 == Spaces \cup {<<"/">>, <<"-">>, <<NBSP>>}
Gaps2 == Spaces \cup {<<",">> \o g : g \in Spaces} \cup {<<"/">>, <<"-">>}
Seconds == {<<"2", "1">>, <<"3", "0">>, <<"1">>, <<"0">>, <<"1", "U+0663">>,
            <<>>}
Thirds == {<<"2", "0", "0", "4">>, <<"0", "9", "9", "9">>,
           <<"2", "0", "0", "4", "5">>, <<"2", "1">>,
           <<"U+0662", "0", "0", "U+0664">>, <<>>}
Tails == {<<>>, <<" ">>, <<" ", "a", "t">>}

FreeForm ==
    {[str |-> w \o g1 \o n1 \o g2 \o n2 \o t,
      from |-> [kind |-> "free", y |-> 0, m |-> 0, d |-> 0, g |-> 0]] :
        w \in Words, g1 \in Gaps1, n1 \in Seconds, g2 \in Gaps2,
        n2 \in Thirds, t \in Tails}

\* Archive files: records and noise, each record after the first behind a
\* separator line; the lines end with "\n" or with "\r" and "\r\n".
Records ==
    {Body \o <<"x">>,
     Rep("b", 25) \o <<"\r", "\n">> \o Rep("b", 26),
     <<"n", "o", "i", "s", "e">>}
SeparatorLines ==
    {<<"\n", "*", "*", "*", "\n">>, <<"\r", "*", "*", "*", "\r", "\n">>}

RECURSIVE ArchivesOf(_)
ArchivesOf(n) ==
    IF n = 0 THEN {<<>>}
    ELSE LET shorter == ArchivesOf(n - 1)
         IN  shorter \cup Records
             \cup {a \o sep \o r :
                     a \in shorter \ {<<>>}, sep \in SeparatorLines,
                     r \in Records}

\* What the extraction service may answer, and how a call may fail.
Responses ==
    {[date |-> d, location |-> "clubhouse"] :
        d \in {<<>>, <<"N", "o", "n", "s", "e", "n", "s", "e">>,
               Render(1971, 10, 6, 2, FALSE)}}
ServiceErrors == {"quota exceeded"}

(***************************************************************************)
(* The state machine                                                       *)
(***************************************************************************)
segVars == <<text, pieces, segDone>>
dateVars == <<date_str, origin, result, again, datePc>>
runVars == <<input_exists, input_file, full_text, meetings, i, pc, response,
             meeting_dict, error, failed_at, output_file, errors_log,
             out_mark, trace>>
vars == <<libc, segVars, dateVars, runVars>>

NotCalled == Returned(<<>>)
NoOrigin == [kind |-> "free", y |-> 0, m |-> 0, d |-> 0, g |-> 0]

SegIdle == text = <<>> /\ pieces = <<>> /\ segDone = FALSE
DateIdle ==
    /\ date_str = <<>> /\ origin = NoOrigin
    /\ result = NotCalled /\ again = NotCalled /\ datePc = "input"
RunIdle ==
    /\ input_exists = FALSE /\ input_file = <<>> /\ full_text = <<>>
    /\ meetings = <<>> /\ i = 0 /\ pc = "start" /\ response = NoResponse
    /\ meeting_dict = NoDict /\ error = "" /\ failed_at = ""
    /\ output_file = <<>> /\ errors_log = <<>> /\ out_mark = 0
    /\ trace = <<>>

---------------------------------------------------------------------------
\* split_into_meetings on its own.
SegInit ==
    /\ libc = "glibc"
    /\ text \in TextsOf(MaxLines)
    /\ pieces = <<>>
    /\ segDone = FALSE
    /\ DateIdle
    /\ RunIdle

SplitIntoMeetings ==
    /\ ~segDone
    /\ pieces' = split_into_meetings(text)
    /\ segDone' = TRUE
    /\ UNCHANGED <<libc, text, dateVars, runVars>>

SegNext == SplitIntoMeetings

SpecSegment == SegInit /\ [][SegNext]_vars

---------------------------------------------------------------------------
\* standardize_date on its own.
DateInit ==
    /\ libc \in {"glibc", "padded"}
    /\ \E in \in Rendered \cup FreeForm :
          /\ date_str = in.str
          /\ origin = in.from
    /\ result = NotCalled
    /\ again = NotCalled
    /\ datePc = "input"
    /\ SegIdle
    /\ RunIdle

Normalize ==
    /\ datePc = "input"
    /\ result' = standardize_date(date_str)
    /\ datePc' = "normalized"
    /\ UNCHANGED <<libc, date_str, origin, again, segVars, runVars>>

Renormalize ==
    /\ datePc = "normalized"
    /\ result.exc = "none"
    /\ result.value # <<>>
    /\ again' = standardize_date(result.value)
    /\ datePc' = "renormalized"
    /\ UNCHANGED <<libc, date_str, origin, result, segVars, runVars>>

DateNext == Normalize \/ Renormalize

SpecDate == DateInit /\ [][DateNext]_vars

---------------------------------------------------------------------------
\* run_conversion.
RunInit ==
    /\ libc \in {"glibc", "padded"}
    /\ input_exists \in BOOLEAN
    /\ input_file \in (IF input_exists THEN ArchivesOf(MaxSegments) ELSE {<<>>})
    /\ full_text = <<>>
    /\ meetings = <<>>
    /\ i = 0
    /\ pc = "start"
    /\ response = NoResponse
    /\ meeting_dict = NoDict
    /\ error = ""
    /\ failed_at = ""
    /\ output_file = <<>>
    /\ errors_log = <<>>
    /\ out_mark = 0
    /\ trace = <<>>
    /\ SegIdle
    /\ DateIdle

\* The exception a print raises when the console is gone.
ConsoleError == "BrokenPipeError"

\* What the run keeps of the iteration that ends: the 1-based number of the
\* segment, how it ended, the service's answer, the exception, the number of
\* writes that reached the output (out: the output as the iteration leaves
\* it), and whether the except clause ran to its end.
Ended(how, logged, out) ==
    [entry |-> i + 1, outcome |-> how, response |-> response,
     reason |-> error, lines |-> Len(out) - out_mark, logged |-> logged]

\* if not os.path.exists(INPUT_FILE): print(...); return
\* The print may raise; the exception leaves run_conversion.
MissingInput ==
    /\ pc = "start"
    /\ ~input_exists
    /\ \E printed \in BOOLEAN : pc' = IF printed THEN "returned" ELSE "crashed"
    /\ UNCHANGED <<libc, segVars, dateVars, input_exists, input_file,
                   full_text, meetings, i, response, meeting_dict, error,
                   failed_at, output_file, errors_log, out_mark, trace>>

\* open(INPUT_FILE, "r", encoding="utf-8") or f.read() raises (the file
\* cannot be opened, or it is not UTF-8): the exception leaves run_conversion.
ReadFails ==
    /\ pc = "start"
    /\ input_exists
    /\ pc' = "crashed"
    /\ UNCHANGED <<libc, segVars, dateVars, input_exists, input_file,
                   full_text, meetings, i, response, meeting_dict, error,
                   failed_at, output_file, errors_log, out_mark, trace>>

\* full_text = f.read(); meetings = split_into_meetings(full_text);
\* print(f"Found ...").  The print may raise.
ReadAndSplit ==
    /\ pc = "start"
    /\ input_exists
    /\ full_text' = UniversalNewlines(input_file)
    /\ meetings' = split_into_meetings(full_text')
    /\ i' = 0
    /\ \E printed \in BOOLEAN : pc' = IF printed THEN "loop" ELSE "crashed"
    /\ UNCHANGED <<libc, segVars, dateVars, input_exists, input_file,
                   response, meeting_dict, error, failed_at, output_file,
                   errors_log, out_mark, trace>>

\* print(f"[{i+1}/{len(meetings)}] Processing...") raises, before the try:
\* the exception leaves run_conversion.
AnnounceFails ==
    /\ pc = "loop"
    /\ i < Len(meetings)
    /\ trace' = Append(trace,
                       [entry |-> i + 1, outcome |-> "not started",
                        response |-> NoResponse, reason |-> ConsoleError,
                        lines |-> 0, logged |-> FALSE])
    /\ pc' = "crashed"
    /\ UNCHANGED <<libc, segVars, dateVars, input_exists, input_file,
                   full_text, meetings, i, response, meeting_dict, error,
                   failed_at, output_file, errors_log, out_mark>>

\* The progress line is printed; chain.invoke returns; model_dump();
\* original_text is set.
InvokeOk ==
    /\ pc = "loop"
    /\ i < Len(meetings)
    /\ \E r \in Responses :
          /\ response' = r
          /\ meeting_dict' = DictOf(r, meetings[i + 1])
    /\ error' = ""
    /\ failed_at' = ""
    /\ out_mark' = Len(output_file)
    /\ pc' = "extracted"
    /\ UNCHANGED <<libc, segVars, dateVars, input_exists, input_file,
                   full_text, meetings, i, output_file, errors_log, trace>>

\* The progress line is printed; chain.invoke raises: response and
\* meeting_dict stay what the iteration before left.
InvokeFails ==
    /\ pc = "loop"
    /\ i < Len(meetings)
    /\ \E e \in ServiceErrors : error' = e
    /\ failed_at' = "extraction failed"
    /\ out_mark' = Len(output_file)
    /\ pc' = "except"
    /\ UNCHANGED <<libc, segVars, dateVars, input_exists, input_file,
                   full_text, meetings, i, response, meeting_dict,
                   output_file, errors_log, trace>>

\* The date of the record is standardized; an exception of standardize_date
\* would go to the except clause like any other.
StandardizeDate ==
    /\ pc = "extracted"
    /\ IF StandardDateExc(meeting_dict) = "none"
       THEN /\ meeting_dict' = WithStandardDate(meeting_dict)
            /\ pc' = "normalized"
            /\ error' = error
            /\ failed_at' = failed_at
       ELSE /\ meeting_dict' = meeting_dict
            /\ pc' = "except"
            /\ error' = StandardDateExc(meeting_dict)
            /\ failed_at' = "date failed"
    /\ UNCHANGED <<libc, segVars, dateVars, input_exists, input_file,
                   full_text, meetings, i, response, output_file, errors_log,
                   out_mark, trace>>

\* with open(OUTPUT_FILE, "a") as out_f: out_f.write(json.dumps(...) + "\n")
WriteOk ==
    /\ pc = "normalized"
    /\ output_file' = Append(output_file, Line(meeting_dict))
    /\ pc' = "written"
    /\ UNCHANGED <<libc, segVars, dateVars, input_exists, input_file,
                   full_text, meetings, i, response, meeting_dict, error,
                   failed_at, errors_log, out_mark, trace>>

\* Opening, writing or closing OUTPUT_FILE raises OSError, with nothing, a
\* beginning of the line or the whole line left in the file.
WriteFails ==
    /\ pc = "normalized"
    /\ \E left \in WriteLeftovers :
          output_file' = LeftIn(output_file, left, Line(meeting_dict),
                                LineFragment(meeting_dict))
    /\ error' = "OSError"
    /\ failed_at' = "write failed"
    /\ pc' = "except"
    /\ UNCHANGED <<libc, segVars, dateVars, input_exists, input_file,
                   full_text, meetings, i, response, meeting_dict, errors_log,
                   out_mark, trace>>

\* print(f"      Success: ..."); time.sleep(6); the next iteration.
ReportSaved ==
    /\ pc = "written"
    /\ trace' = Append(trace, Ended("saved", FALSE, output_file))
    /\ i' = i + 1
    /\ pc' = "loop"
    /\ UNCHANGED <<libc, segVars, dateVars, input_exists, input_file,
                   full_text, meetings, response, meeting_dict, error,
                   failed_at, output_file, errors_log, out_mark>>

\* The print after the write raises, still inside the try: the except clause
\* takes the segment that has just been saved.
ReportFails ==
    /\ pc = "written"
    /\ error' = ConsoleError
    /\ failed_at' = "report failed"
    /\ pc' = "except"
    /\ UNCHANGED <<libc, segVars, dateVars, input_exists, input_file,
                   full_text, meetings, i, response, meeting_dict,
                   output_file, errors_log, out_mark, trace>>

\* except Exception as e: print(f"      Error on entry ...") raises inside
\* the except clause: the exception leaves run_conversion, errors.log
\* untouched.
ExceptPrintFails ==
    /\ pc = "except"
    /\ trace' = Append(trace, Ended(failed_at, FALSE, output_file))
    /\ pc' = "crashed"
    /\ UNCHANGED <<libc, segVars, dateVars, input_exists, input_file,
                   full_text, meetings, i, response, meeting_dict, error,
                   failed_at, output_file, errors_log, out_mark>>

\* except Exception as e: the message is printed, the block goes to
\* errors.log; time.sleep(10); continue.
ExceptLogged ==
    /\ pc = "except"
    /\ errors_log' = Append(errors_log, ErrorBlock(i, error, meetings[i + 1]))
    /\ trace' = Append(trace, Ended(failed_at, TRUE, output_file))
    /\ i' = AfterExcept(i, Len(meetings))
    /\ pc' = "loop"
    /\ UNCHANGED <<libc, segVars, dateVars, input_exists, input_file,
                   full_text, meetings, response, meeting_dict, error,
                   failed_at, output_file, out_mark>>

\* Opening, writing or closing errors.log raises inside the except clause,
\* with nothing, a beginning of the block or the whole block left in the
\* file: the exception leaves run_conversion.
ExceptLogFails ==
    /\ pc = "except"
    /\ \E left \in WriteLeftovers :
          errors_log' =
              LeftIn(errors_log, left, ErrorBlock(i, error, meetings[i + 1]),
                     BlockFragment(ErrorBlock(i, error, meetings[i + 1])))
    /\ trace' = Append(trace, Ended(failed_at, FALSE, output_file))
    /\ pc' = "crashed"
    /\ UNCHANGED <<libc, segVars, dateVars, input_exists, input_file,
                   full_text, meetings, i, response, meeting_dict, error,
                   failed_at, output_file, out_mark>>

\* The loop is over: print("Processing Complete! ...").  The print may raise.
Complete ==
    /\ pc = "loop"
    /\ i >= Len(meetings)
    /\ \E printed \in BOOLEAN : pc' = IF printed THEN "complete" ELSE "crashed"
    /\ UNCHANGED <<libc, segVars, dateVars, input_exists, input_file,
                   full_text, meetings, i, response, meeting_dict, error,
                   failed_at, output_file, errors_log, out_mark, trace>>

Next ==
    \/ MissingInput
    \/ ReadFails
    \/ ReadAndSplit
    \/ AnnounceFails
    \/ InvokeOk
    \/ InvokeFails
    \/ StandardizeDate
    \/ WriteOk
    \/ WriteFails
    \/ ReportSaved
    \/ ReportFails
    \/ ExceptPrintFails
    \/ ExceptLogged
    \/ ExceptLogFails
    \/ Complete

Spec == RunInit /\ [][Next]_vars

(***************************************************************************)
(* Properties of split_into_meetings (checked under SpecSegment)           *)
(***************************************************************************)
\* The lines of a text: what stands between its line breaks.
RECURSIVE LinesOf(_)
LinesOf(s) ==
    LET breaks == {k \in 1..Len(s) : s[k] = "\n"}
    IN  IF breaks = {} THEN <<s>>
        ELSE <<SubSeq(s, 1, Min(breaks) - 1)>>
             \o LinesOf(SubSeq(s, Min(breaks) + 1, Len(s)))

\* A boundary-marker line: trimmed, it is three or more '*', three or more
\* '-', or the token Meeting: and nothing else.
IsMarkerLine(l) ==
    LET t == Strip(l)
    IN  \/ Len(t) >= 3 /\ \A k \in 1..Len(t) : t[k] = "*"
        \/ Len(t) >= 3 /\ \A k \in 1..Len(t) : t[k] = "-"
        \/ t = MeetingToken

MarkerLines(s) ==
    Cardinality({k \in 1..Len(LinesOf(s)) : IsMarkerLine(LinesOf(s)[k])})

HasMarkerLine(s) == MarkerLines(s) > 0

\* C1: every piece split_into_meetings returns is trimmed of leading and
\* trailing whitespace and is longer than 50 characters.
C1_PiecesTrimmedAndLong ==
    segDone =>
        \A k \in 1..Len(pieces) :
            /\ Len(pieces[k]) > 50
            /\ pieces[k] # <<>>
            /\ ~IsSpace(pieces[k][1])
            /\ ~IsSpace(pieces[k][Len(pieces[k])])

\* C1 happens: a chunk between blanks whose trimmed length is exactly 50 was
\* dropped, and a chunk between a vertical tab and an em space, of trimmed
\* length 51, was returned without them.
C1_Witness ==
    /\ segDone
    /\ \E c \in Range(ReSplit(text, 1)) : c # Strip(c) /\ Len(Strip(c)) = 50
    /\ \E c \in Range(ReSplit(text, 1)) :
          /\ c # <<>>
          /\ c[1] = VT
          /\ c[Len(c)] = "U+2003"
          /\ Len(Strip(c)) = 51
          /\ Strip(c) \in Range(pieces)

\* C2: with N boundary-marker lines in the text (also as its first line),
\* split_into_meetings returns at most N+1 pieces and no piece contains a
\* boundary-marker line.
C2_AtMostNPlusOneAndNoMarkerKept ==
    segDone =>
        /\ Len(pieces) <= MarkerLines(text) + 1
        /\ \A k \in 1..Len(pieces) : ~HasMarkerLine(pieces[k])

\* C3: a text without any boundary-marker line gives exactly one segment, the
\* whole trimmed text, when that is longer than 50 characters, and no segment
\* otherwise; a marker followed by other text on its line does not split.
C3_NoMarkerNoSplit ==
    (segDone /\ ~HasMarkerLine(text)) =>
        pieces = IF Len(Strip(text)) > 50 THEN <<Strip(text)>> ELSE <<>>

(***************************************************************************)
(* Properties of standardize_date (checked under SpecDate)                 *)
(***************************************************************************)
\* C4: each of the six renderings of a valid calendar date is mapped to the
\* canonical YYYY-MM-DD string of that date.
C4_RenderingsGiveCanonical ==
    (datePc # "input" /\ origin.kind = "date") =>
        result = Returned(Canonical(origin.y, origin.m, origin.d))

\* C5: standardize_date applied to a non-empty result of standardize_date
\* gives that result again.
C5_Idempotent ==
    datePc = "renormalized" => again = result

\* The string has the shape YYYY-MM-DD: ten characters, ASCII digits around
\* two hyphens.
IsCanonicalShape(v) ==
    /\ Len(v) = 10
    /\ v[5] = "-"
    /\ v[8] = "-"
    /\ \A k \in {1, 2, 3, 4, 6, 7, 9, 10} : IsAsciiDigit(v[k])

\* C6: a non-empty result of standardize_date is exactly ten characters
\* YYYY-MM-DD, zero-padded, and denotes a valid calendar date, also for
\* years below 1000.
C6_ResultIsCanonicalDate ==
    (datePc # "input" /\ result.value # <<>>) =>
        /\ IsCanonicalShape(result.value)
        /\ ValidDate(DigitsToInt(SubSeq(result.value, 1, 4)),
                     DigitsToInt(SubSeq(result.value, 6, 7)),
                     DigitsToInt(SubSeq(result.value, 9, 10)))

\* No format reads the string as a date, and the fallback pattern does not
\* either: each fails to match or matches a month, day and year that make no
\* calendar date.
NothingReads(ds) ==
    /\ \A n \in DOMAIN formats : Strptime(ds, formats[n]).exc # "none"
    /\ LET match == MatchItems(ds, 1, FallbackItems)
       IN  match.ok => FallbackDate(ds, match.ends).exc # "none"

\* C7: standardize_date never raises, and it returns the empty string
\* whenever no grammar and no fallback pattern reads its argument as a valid
\* calendar date.
C7_NeverRaisesEmptyOnFailure ==
    datePc # "input" =>
        /\ result.exc = "none"
        /\ NothingReads(Strip(date_str)) => result.value = <<>>

\* C7 happens: "February 30, 2004" matches the first format and the fallback
\* pattern, makes no calendar date, and comes back as the empty string.
C7_Witness ==
    /\ datePc # "input"
    /\ date_str = month_name[2] \o <<" ", "3", "0", ",", " ", "2", "0", "0", "4">>
    /\ MatchItems(date_str, 1, formats[1].items).ok
    /\ MatchItems(date_str, 1, FallbackItems).ok
    /\ result = Returned(<<>>)

(***************************************************************************)
(* Properties of run_conversion (checked under Spec)                       *)
(***************************************************************************)
\* Segment k has been taken up by the loop.
Attempted(k) ==
    \/ k <= Len(trace)
    \/ i = k - 1 /\ pc \in {"extracted", "normalized", "written", "except"}

\* The loop stands before segment k and nothing but that segment's iteration
\* can come next.
AboutToAttempt(k) == pc = "loop" /\ i = k - 1 /\ k <= Len(meetings)

\* What errors.log holds that carries the number k.
BlocksOf(k) == {b \in 1..Len(errors_log) : errors_log[b].entry = k}

\* C8: a segment whose extraction call fails adds nothing to the output and
\* (the except clause running to its end) exactly one block to errors.log,
\* with its 1-based index, the error and the verbatim segment; the next
\* segment is attempted all the same.
C8_FailureIsolated ==
    \A k \in 1..Len(trace) :
        trace[k].outcome = "extraction failed" =>
            /\ trace[k].lines = 0
            /\ trace[k].logged =>
                  /\ Cardinality(BlocksOf(k)) = 1
                  /\ \A b \in BlocksOf(k) :
                        errors_log[b] = [kind |-> "block",
                                         entry |-> k,
                                         reason |-> trace[k].reason,
                                         chunk |-> meetings[k]]
                  /\ k < Len(meetings) =>
                        Attempted(k + 1) \/ AboutToAttempt(k + 1)

\* C8 happens: the run completed, a segment's extraction failed and was
\* logged, and the segment after it was saved.
C8_Witness ==
    /\ pc = "complete"
    /\ \E k \in 1..(Len(trace) - 1) :
          /\ trace[k].outcome = "extraction failed"
          /\ trace[k].logged
          /\ trace[k].reason \in ServiceErrors
          /\ trace[k + 1].outcome = "saved"
          /\ output_file = <<Line([date |-> output_file[1].record.date,
                                   location |-> "clubhouse",
                                   original_text |-> meetings[k + 1]])>>

\* C9: a failed append to the output aborts the run, so that no later
\* segment is processed and the loop does not go on; a missing input file
\* stops the run before any extraction call, with nothing written.
C9_OnlyInputAndPersistenceHalt ==
    /\ \A k \in 1..Len(trace) :
          trace[k].outcome = "write failed" =>
              /\ k = Len(trace)
              /\ pc \notin {"loop", "extracted", "normalized", "written",
                            "except", "complete"}
    /\ ~input_exists =>
          /\ pc \in {"start", "returned", "crashed"}
          /\ trace = <<>>
          /\ output_file = <<>>
          /\ errors_log = <<>>

\* The segment's extraction and its write to the output both succeeded.
Persisted(k) == trace[k].outcome \in {"saved", "report failed"}

\* The lines the segments from number k on should have left in the output:
\* one for each persisted segment, in order, with the standardized date of
\* the service's answer and the segment itself as original_text.
RECURSIVE ExpectedLines(_)
ExpectedLines(k) ==
    IF k > Len(trace) THEN <<>>
    ELSE (IF Persisted(k)
          THEN <<Line([date |-> standardize_date(trace[k].response.date).value,
                       location |-> trace[k].response.location,
                       original_text |-> meetings[k]])>>
          ELSE <<>>)
         \o ExpectedLines(k + 1)

\* C10: once run_conversion has completed, every segment has been dealt with
\* once, in order, and the output holds exactly one line per segment whose
\* extraction and write succeeded, in document order, its date the
\* standardized date of the answer (empty when that is empty or unreadable)
\* and its original_text the segment.
C10_OutputIsTheSavedSegments ==
    pc = "complete" =>
        /\ Len(trace) = Len(meetings)
        /\ \A k \in 1..Len(trace) : trace[k].entry = k
        /\ output_file = ExpectedLines(1)

====
